---- MODULE Spec2Model ----
(***************************************************************************)
(* Model of yolo3/detect/img_detect.py (ImageDetector, ImageFolderDetector)*)
(* and of the backbone registry populated by                               *)
(* deep_sort/deep/modeling/backbones/__init__.py.                           *)
(*                                                                         *)
(* Every detect() call is cut into the statements that call into the       *)
(* framework (cv2, torch, the model, matplotlib), so that the order of the *)
(* steps and the effect of an exception raised by one of them are visible. *)
(* Values computed by the framework (model output, the boxes kept by       *)
(* non_max_suppression) are chosen by the environment.                     *)
(***************************************************************************)
EXTENDS Integers, Sequences, FiniteSets, TLC

\* ---------------------------------------------------------------- bounds
MaxDim == 3        \* largest image height / width handed to ImageDetector
MaxSize == 2       \* largest model.img_size
MaxImgs == 2       \* most images a dataloader yields
MaxBatch == 2      \* most images in one batch
MaxCalls == 2      \* detect() calls in one run
MaxLookups == 3    \* registry lookups / build_backbone calls in one run

\* ------------------------------------------------------- program constants
Channels == 3           \* colour channels of the HxWxC input image
DefaultThickness == 2   \* ImageDetector.__init__ thickness=2
PadValue == 0           \* pad_to_square(image, 0)

\* thresholds are kept in tenths: 0.5 -> 5, 0.8 -> 8, 0.4 -> 4
ConfThresholds == {5, 8}
NmsThresholds == {4}
ClassFiles == { <<"person", "car">> }

\* ------------------------------------------------------------- file names
\* A path is a sequence of characters.
Paths == { <<"a", ".", "j">>,
           <<"a", ".", "p">>,
           <<"d", "/", "b", ".", "x", ".", "j">> }
OutputDirs == { <<"o">> }

SetMax(S) == CHOOSE x \in S : \A y \in S : y <= x
SetMin(S) == CHOOSE x \in S : \A y \in S : x <= y

\* os.path.basename(path): what follows the last "/"
basename(path) ==
    LET slashes == {i \in 1..Len(path) : path[i] = "/"}
        from == IF slashes = {} THEN 1 ELSE SetMax(slashes) + 1
    IN SubSeq(path, from, Len(path))

\* s.split(".")[0]: what precedes the first "."
split0(s) ==
    LET dots == {i \in 1..Len(s) : s[i] = "."}
        upto == IF dots = {} THEN Len(s) ELSE SetMin(dots) - 1
    IN SubSeq(s, 1, upto)

\* os.path.join(a, b) for a relative b
join(a, b) ==
    IF a = <<>> \/ a[Len(a)] = "/" THEN a \o b ELSE a \o <<"/">> \o b

\* lines 145-146
output_path_of(output_dir, path) ==
    join(output_dir, split0(basename(path)) \o <<".", "p", "n", "g">>)

\* shape (h, w) of the image stored at a path: contents of the file system
ImageShapeOf(path) == <<Len(path), 2>>

\* ------------------------------------------------------------- detections
\* One entry of the list returned by non_max_suppression.  src names the image
\* the boxes were computed from; scaled lists the rescale_boxes applications.
None == [none |-> TRUE, src |-> 0, scaled |-> <<>>]
Boxes(i) == [none |-> FALSE, src |-> i, scaled |-> <<>>]
NotReturned == [none |-> TRUE, src |-> -1, scaled |-> <<>>]

\* yolo3.utils.model_build.rescale_boxes(boxes, current_dim, original_shape)
rescale_boxes(boxes, current_dim, original_shape) ==
    [boxes EXCEPT !.scaled = Append(@, <<current_dim, original_shape>>)]

\* yolo3.dataset.dataset.pad_to_square(img, pad_value) on a CxHxW tensor shape
pad_to_square(image, pad_value) ==
    LET side == IF image[2] >= image[3] THEN image[2] ELSE image[3]
    IN <<image[1], side, side>>

\* cv2.resize's dsize (width, height) as lines 43-46 compute it
resize_dsize(h_, w_, img_size) ==
    IF w_ > h_ THEN <<img_size, (h_ * img_size) \div w_>>
               ELSE <<(w_ * img_size) \div h_, img_size>>

\* ------------------------------------------------------------ dataloaders
RECURSIVE SumLen(_)
SumLen(dl) == IF dl = <<>> THEN 0 ELSE Len(Head(dl)) + SumLen(Tail(dl))

RECURSIVE Flatten(_)
Flatten(dl) == IF dl = <<>> THEN <<>> ELSE Head(dl) \o Flatten(Tail(dl))

IsInjective(s) == \A i, j \in 1..Len(s) : s[i] = s[j] => i = j

BatchesOf == UNION { [1..n -> Paths] : n \in 1..MaxBatch }
Dataloaders ==
    { dl \in UNION { [1..n -> BatchesOf] : n \in 0..MaxImgs } :
        SumLen(dl) <= MaxImgs /\ IsInjective(Flatten(dl)) }

\* number of images in the batches before batch b (0-based)
Offset(dl, b) == SumLen(SubSeq(dl, 1, b))

\* ------------------------------------------------------------------ state
VARIABLES
    idet,            \* fields of the ImageDetector object
    fdet,            \* fields of the ImageFolderDetector object
    pc,              \* position inside the running detect(), or idle/done/raised
    which,           \* "ID" / "FD": the detector whose detect() runs
    calls,           \* detect() calls started so far
    failed,          \* the step whose exception left detect(), or "none"
    img,             \* ImageDetector.detect: shape (h, w) of img
    h, w,            \* line 42
    image,           \* shape of the tensor built for the model
    detections,      \* list-valued detections (model output / NMS output)
    detection,       \* detections[0] (line 63) / loop variable of line 110
    result,          \* value returned by ImageDetector.detect
    dataloader, output_dir, conf_thres, nms_thres,  \* arguments of line 82
    batch_i, img_paths,
    imgs, img_detections,
    img_i, path,
    saved,           \* savefig calls of this call: <<output_path, path, detection>>
    figs,            \* pyplot's open figures, the current one last
    steps,           \* per image, the pipeline steps invoked in this call
    fwdCount,        \* invocations of self.model(...) in this call
    nmsArgs,         \* thresholds handed to non_max_suppression
    nmsGhost,        \* per image, the entry non_max_suppression computed for it
    figs0,           \* figs when the call started
    cfg0,            \* the detectors' fields as the constructors left them
    registry, importPc, lookups   \* BACKBONE_REGISTRY and its use

detVars == <<idet, fdet>>
fdArgs == <<dataloader, output_dir, conf_thres, nms_thres>>
fdVars == <<batch_i, img_paths, imgs, img_detections, img_i, path, saved>>
regVars == <<registry, importPc, lookups>>
vars == <<idet, fdet, pc, which, calls, failed, img, h, w, image, detections,
          detection, result, dataloader, output_dir, conf_thres, nms_thres,
          batch_i, img_paths, imgs, img_detections, img_i, path, saved, figs,
          steps, fwdCount, nmsArgs, nmsGhost, figs0, cfg0,
          registry, importPc, lookups>>

Log(st, i, s) == [st EXCEPT ![i] = Append(@, s)]
LogAll(st, from, n, s) ==
    [i \in 1..Len(st) |-> IF i > from /\ i <= from + n THEN Append(st[i], s) ELSE st[i]]


\* ------------------------------------------------------------ constructors
\* ImageDetector.__init__, lines 25-35
NewImageDetector(img_size, classes, thickness, conf, nms) ==
    [model |-> [img_size |-> img_size, training |-> FALSE],
     classes |-> classes, num_classes |-> Len(classes),
     thickness |-> thickness, conf_thres |-> conf, nms_thres |-> nms]

\* ImageFolderDetector.__init__, lines 78-80
NewImageFolderDetector(img_size, classes) ==
    [model |-> [img_size |-> img_size, training |-> FALSE], classes |-> classes]

BACKBONE_NAMES ==
    <<"build_resnet_backbone", "build_darknet_backbone", "build_r18x_backbone">>
NumImports == Len(BACKBONE_NAMES)
LoadedRegistry == { <<BACKBONE_NAMES[i], i>> : i \in 1..NumImports }

\* the locals of a detect() call before the call has started
NoCall ==
    /\ img = <<0, 0>> /\ h = 0 /\ w = 0 /\ image = <<>>
    /\ detections = <<>> /\ detection = NotReturned /\ result = NotReturned
    /\ dataloader = <<>> /\ output_dir = <<>> /\ conf_thres = 0 /\ nms_thres = 0
    /\ batch_i = -1 /\ img_paths = <<>> /\ imgs = <<>> /\ img_detections = <<>>
    /\ img_i = -1 /\ path = <<>> /\ saved = <<>>
    /\ steps = <<>> /\ fwdCount = 0 /\ nmsArgs = <<>> /\ nmsGhost = <<>>

Init ==
    /\ \E size \in 1..MaxSize, classes \in ClassFiles,
          conf \in ConfThresholds, nms \in NmsThresholds :
         /\ idet = NewImageDetector(size, classes, DefaultThickness, conf, nms)
         /\ fdet = NewImageFolderDetector(size, classes)
    /\ cfg0 = <<idet, fdet>>
    /\ pc = "idle" /\ which = "none" /\ calls = 0 /\ failed = "none"
    /\ NoCall
    /\ figs = <<>> /\ figs0 = <<>>
    /\ registry = LoadedRegistry /\ importPc = NumImports /\ lookups = <<>>

\* an exception leaves detect(): nothing else of the call runs
Raise(step) == pc' = "raised" /\ failed' = step

\* ------------------------------------------------ ImageDetector.detect
\* lines 37-42: the call and h, w, _ = img.shape
ID_Call(shape) ==
    /\ pc = "idle" /\ calls < MaxCalls
    /\ calls' = calls + 1 /\ which' = "ID" /\ failed' = "none"
    /\ img' = shape /\ h' = shape[1] /\ w' = shape[2]
    /\ image' = <<>> /\ detections' = <<>> /\ detection' = NotReturned
    /\ result' = NotReturned
    /\ dataloader' = <<>> /\ output_dir' = <<>> /\ conf_thres' = 0 /\ nms_thres' = 0
    /\ batch_i' = -1 /\ img_paths' = <<>> /\ imgs' = <<>> /\ img_detections' = <<>>
    /\ img_i' = -1 /\ path' = <<>> /\ saved' = <<>>
    /\ steps' = << <<>> >> /\ fwdCount' = 0 /\ nmsArgs' = <<>> /\ nmsGhost' = <<>>
    /\ figs0' = figs
    /\ pc' = "id_resize"
    /\ UNCHANGED <<detVars, figs, cfg0, regVars>>

\* lines 43-48: cv2.resize to dsize = (width, height), then ToTensor (CxHxW).
\* cv2.resize raises when a side of dsize is not positive.
ID_Resize ==
    /\ pc = "id_resize"
    /\ steps' = Log(steps, 1, "resize")
    /\ LET dsize == resize_dsize(h, w, idet.model.img_size) IN
         IF dsize[1] <= 0 \/ dsize[2] <= 0
         THEN /\ Raise("resize")
              /\ UNCHANGED <<img, image>>
         ELSE /\ img' = <<dsize[2], dsize[1]>>
              /\ image' = <<Channels, dsize[2], dsize[1]>>
              /\ pc' = "id_pad"
              /\ UNCHANGED failed
    /\ UNCHANGED <<detVars, which, calls, h, w, detections, detection, result,
                   fdArgs, fdVars, figs, fwdCount, nmsArgs, nmsGhost, figs0,
                   cfg0, regVars>>

\* lines 50-54: the tensor has 3 dimensions, so only pad_to_square acts
ID_Pad ==
    /\ pc = "id_pad"
    /\ steps' = Log(steps, 1, "pad")
    /\ image' = pad_to_square(image, PadValue)
    /\ pc' = "id_batch"
    /\ UNCHANGED <<detVars, which, calls, failed, img, h, w, detections,
                   detection, result, fdArgs, fdVars, figs, fwdCount, nmsArgs,
                   nmsGhost, figs0, cfg0, regVars>>

\* line 57: image.unsqueeze(0)
ID_Batch ==
    /\ pc = "id_batch"
    /\ steps' = Log(steps, 1, "batch")
    /\ image' = <<1>> \o image
    /\ pc' = "id_forward"
    /\ UNCHANGED <<detVars, which, calls, failed, img, h, w, detections,
                   detection, result, fdArgs, fdVars, figs, fwdCount, nmsArgs,
                   nmsGhost, figs0, cfg0, regVars>>

\* ID_Forward that calls the model again after a first failure
ID_Forward_Retries(ok) ==
    /\ pc = "id_forward"
    /\ steps' = Log(steps, 1, "forward")
    /\ fwdCount' = fwdCount + 1
    /\ IF ok THEN /\ detections' = [k \in 1..image[1] |-> Boxes(k)]
                  /\ pc' = "id_nms"
                  /\ UNCHANGED failed
             ELSE /\ IF fwdCount = 0 THEN UNCHANGED <<pc, failed>> ELSE Raise("forward")
                  /\ UNCHANGED detections
    /\ UNCHANGED <<detVars, which, calls, img, h, w, image, detection, result,
                   fdArgs, fdVars, figs, nmsArgs, nmsGhost, figs0, cfg0, regVars>>

\* line 61: detections = self.model(image)
ID_Forward(ok) ==
    /\ pc = "id_forward"
    /\ steps' = Log(steps, 1, "forward")
    /\ fwdCount' = fwdCount + 1
    /\ IF ok THEN /\ detections' = [k \in 1..image[1] |-> Boxes(k)]
                  /\ pc' = "id_nms"
                  /\ UNCHANGED failed
             ELSE /\ Raise("forward")
                  /\ UNCHANGED detections
    /\ UNCHANGED <<detVars, which, calls, img, h, w, image, detection, result,
                   fdArgs, fdVars, figs, nmsArgs, nmsGhost, figs0, cfg0, regVars>>

\* what non_max_suppression may return for a model output: per image either
\* None or the boxes kept for that image
NmsOutputs(prediction) ==
    { out \in [1..Len(prediction) -> {None} \cup {prediction[k] : k \in 1..Len(prediction)}] :
        \A k \in 1..Len(prediction) : out[k] = None \/ out[k] = prediction[k] }

\* ID_NMS that overwrites self.conf_thres with the threshold it ends up using
ID_NMS_KeepsThreshold(ok, out) ==
    /\ pc = "id_nms"
    /\ steps' = Log(steps, 1, "suppress")
    /\ nmsArgs' = <<idet.conf_thres, idet.nms_thres>>
    /\ IF ok THEN /\ detections' = out
                  /\ detection' = out[1]
                  /\ nmsGhost' = out
                  /\ pc' = "id_rescale"
                  /\ UNCHANGED failed
             ELSE /\ Raise("suppress")
                  /\ UNCHANGED <<detections, detection, nmsGhost>>
    /\ idet' = [idet EXCEPT !.conf_thres = idet.nms_thres]
    /\ UNCHANGED <<fdet, which, calls, img, h, w, image, result,
                   fdArgs, fdVars, figs, fwdCount, figs0, cfg0, regVars>>

\* lines 62-63: non_max_suppression(detections, self.conf_thres, self.nms_thres)
\* and detections = detections[0]
ID_NMS(ok, out) ==
    /\ pc = "id_nms"
    /\ steps' = Log(steps, 1, "suppress")
    /\ nmsArgs' = <<idet.conf_thres, idet.nms_thres>>
    /\ IF ok THEN /\ detections' = out
                  /\ detection' = out[1]
                  /\ nmsGhost' = out
                  /\ pc' = "id_rescale"
                  /\ UNCHANGED failed
             ELSE /\ Raise("suppress")
                  /\ UNCHANGED <<detections, detection, nmsGhost>>
    /\ UNCHANGED <<detVars, which, calls, img, h, w, image, result,
                   fdArgs, fdVars, figs, fwdCount, figs0, cfg0, regVars>>

\* ID_Rescale that hands rescale_boxes the shape of the resized image
ID_Rescale_ResizedShape(ok) ==
    /\ pc = "id_rescale"
    /\ IF detection.none
       THEN /\ result' = detection
            /\ pc' = "done"
            /\ UNCHANGED <<detection, steps, failed>>
       ELSE /\ steps' = Log(steps, 1, "rescale")
            /\ IF ok THEN /\ detection' = rescale_boxes(detection, idet.model.img_size, img)
                          /\ result' = detection'
                          /\ pc' = "done"
                          /\ UNCHANGED failed
                     ELSE /\ Raise("rescale")
                          /\ UNCHANGED <<detection, result>>
    /\ UNCHANGED <<detVars, which, calls, img, h, w, image, detections,
                   fdArgs, fdVars, figs, fwdCount, nmsArgs, nmsGhost, figs0,
                   cfg0, regVars>>

\* lines 69-72: rescale_boxes when there are detections, then return
ID_Rescale(ok) ==
    /\ pc = "id_rescale"
    /\ IF detection.none
       THEN /\ result' = detection
            /\ pc' = "done"
            /\ UNCHANGED <<detection, steps, failed>>
       ELSE /\ steps' = Log(steps, 1, "rescale")
            /\ IF ok THEN /\ detection' = rescale_boxes(detection, idet.model.img_size, <<h, w>>)
                          /\ result' = detection'
                          /\ pc' = "done"
                          /\ UNCHANGED failed
                     ELSE /\ Raise("rescale")
                          /\ UNCHANGED <<detection, result>>
    /\ UNCHANGED <<detVars, which, calls, img, h, w, image, detections,
                   fdArgs, fdVars, figs, fwdCount, nmsArgs, nmsGhost, figs0,
                   cfg0, regVars>>


\* --------------------------------------------- ImageFolderDetector.detect
\* lines 82-89: the call, imgs = [], img_detections = []
FD_Call(dl, out, conf, nms) ==
    /\ pc = "idle" /\ calls < MaxCalls
    /\ calls' = calls + 1 /\ which' = "FD" /\ failed' = "none"
    /\ img' = <<0, 0>> /\ h' = 0 /\ w' = 0 /\ image' = <<>>
    /\ detections' = <<>> /\ detection' = NotReturned /\ result' = NotReturned
    /\ dataloader' = dl /\ output_dir' = out /\ conf_thres' = conf /\ nms_thres' = nms
    /\ batch_i' = -1 /\ img_paths' = <<>> /\ imgs' = <<>> /\ img_detections' = <<>>
    /\ img_i' = -1 /\ path' = <<>> /\ saved' = <<>>
    /\ steps' = [i \in 1..SumLen(dl) |-> <<>>]
    /\ fwdCount' = 0 /\ nmsArgs' = <<>> /\ nmsGhost' = <<>>
    /\ figs0' = figs
    /\ pc' = "fd_next"
    /\ UNCHANGED <<detVars, figs, cfg0, regVars>>

\* line 90: the dataloader hands over its next batch, already resized, padded
\* and batched; once it is exhausted the save loop starts (lines 105-110)
FD_NextBatch ==
    /\ pc = "fd_next"
    /\ IF batch_i + 1 < Len(dataloader)
       THEN /\ batch_i' = batch_i + 1
            /\ img_paths' = dataloader[batch_i + 2]
            /\ image' = <<Len(dataloader[batch_i + 2]), Channels,
                          fdet.model.img_size, fdet.model.img_size>>
            /\ steps' = LogAll(steps, Offset(dataloader, batch_i + 1),
                               Len(dataloader[batch_i + 2]), "batch")
            /\ pc' = "fd_forward"
       ELSE /\ pc' = "fd_image"
            /\ UNCHANGED <<batch_i, img_paths, image, steps>>
    /\ UNCHANGED <<detVars, which, calls, failed, img, h, w, detections,
                   detection, result, fdArgs, imgs, img_detections, img_i, path,
                   saved, figs, fwdCount, nmsArgs, nmsGhost, figs0, cfg0, regVars>>

\* lines 91-94: detections = self.model(input_imgs)
FD_Forward(ok) ==
    /\ pc = "fd_forward"
    /\ steps' = LogAll(steps, Offset(dataloader, batch_i), Len(img_paths), "forward")
    /\ fwdCount' = fwdCount + 1
    /\ IF ok THEN /\ detections' = [k \in 1..image[1] |->
                                       Boxes(Offset(dataloader, batch_i) + k)]
                  /\ pc' = "fd_nms"
                  /\ UNCHANGED failed
             ELSE /\ Raise("forward")
                  /\ UNCHANGED detections
    /\ UNCHANGED <<detVars, which, calls, img, h, w, image, detection, result,
                   fdArgs, fdVars, figs, nmsArgs, nmsGhost, figs0, cfg0, regVars>>

\* line 95: non_max_suppression(detections, conf_thres, nms_thres)
FD_NMS(ok, out) ==
    /\ pc = "fd_nms"
    /\ steps' = LogAll(steps, Offset(dataloader, batch_i), Len(img_paths), "suppress")
    /\ nmsArgs' = <<conf_thres, nms_thres>>
    /\ IF ok THEN /\ detections' = out
                  /\ nmsGhost' = nmsGhost \o out
                  /\ pc' = "fd_extend"
                  /\ UNCHANGED failed
             ELSE /\ Raise("suppress")
                  /\ UNCHANGED <<detections, nmsGhost>>
    /\ UNCHANGED <<detVars, which, calls, img, h, w, image, detection, result,
                   fdArgs, fdVars, figs, fwdCount, figs0, cfg0, regVars>>

\* FD_Extend that keeps only the entries that hold boxes
FD_Extend_DropsNone ==
    /\ pc = "fd_extend"
    /\ imgs' = imgs \o img_paths
    /\ img_detections' = img_detections \o SelectSeq(detections, LAMBDA d : ~d.none)
    /\ pc' = "fd_next"
    /\ UNCHANGED <<detVars, which, calls, failed, img, h, w, image, detections,
                   detection, result, fdArgs, batch_i, img_paths, img_i, path,
                   saved, figs, steps, fwdCount, nmsArgs, nmsGhost, figs0, cfg0,
                   regVars>>

\* lines 97-103: imgs.extend(img_paths); img_detections.extend(detections)
FD_Extend ==
    /\ pc = "fd_extend"
    /\ imgs' = imgs \o img_paths
    /\ img_detections' = img_detections \o detections
    /\ pc' = "fd_next"
    /\ UNCHANGED <<detVars, which, calls, failed, img, h, w, image, detections,
                   detection, result, fdArgs, batch_i, img_paths, img_i, path,
                   saved, figs, steps, fwdCount, nmsArgs, nmsGhost, figs0, cfg0,
                   regVars>>

\* length of zip(imgs, img_detections)
ZipLen == IF Len(imgs) <= Len(img_detections) THEN Len(imgs) ELSE Len(img_detections)

\* lines 110-114: next (path, detections) pair and Image.open(path)
FD_Open(ok) ==
    /\ pc = "fd_image"
    /\ img_i + 1 < ZipLen
    /\ img_i' = img_i + 1
    /\ path' = imgs[img_i + 2]
    /\ detection' = img_detections[img_i + 2]
    /\ IF ok THEN /\ img' = ImageShapeOf(imgs[img_i + 2])
                  /\ pc' = "fd_figure"
                  /\ UNCHANGED failed
             ELSE /\ Raise("open")
                  /\ UNCHANGED img
    /\ UNCHANGED <<detVars, which, calls, h, w, image, detections, result,
                   fdArgs, batch_i, img_paths, imgs, img_detections, saved, figs,
                   steps, fwdCount, nmsArgs, nmsGhost, figs0, cfg0, regVars>>

\* line 110: zip is exhausted, detect returns
FD_Return ==
    /\ pc = "fd_image"
    /\ ~(img_i + 1 < ZipLen)
    /\ pc' = "done"
    /\ UNCHANGED <<detVars, which, calls, failed, img, h, w, image, detections,
                   detection, result, fdArgs, fdVars, figs, steps, fwdCount,
                   nmsArgs, nmsGhost, figs0, cfg0, regVars>>

\* the number pyplot gives a new figure: max of the open ones + 1
NextFigNum(fs) == IF fs = <<>> THEN 1 ELSE SetMax({fs[k] : k \in 1..Len(fs)}) + 1

\* plt.figure(): a new figure, which becomes the current one
plt_figure(fs) == Append(fs, NextFigNum(fs))

\* plt.close(): destroys the current figure only
plt_close(fs) == IF fs = <<>> THEN fs ELSE SubSeq(fs, 1, Len(fs) - 1)

\* lines 115-117: plt.figure(); fig, ax = plt.subplots(1); ax.imshow(img)
FD_Figure ==
    /\ pc = "fd_figure"
    /\ figs' = plt_figure(plt_figure(figs))
    /\ pc' = "fd_rescale"
    /\ UNCHANGED <<detVars, which, calls, failed, img, h, w, image, detections,
                   detection, result, fdArgs, fdVars, steps, fwdCount, nmsArgs,
                   nmsGhost, figs0, cfg0, regVars>>

\* FD_Rescale with the rescale_boxes call forgotten: the boxes are drawn as
\* non_max_suppression left them
FD_Rescale_DrawsUnscaled(ok) ==
    /\ pc = "fd_rescale"
    /\ IF detection.none
       THEN /\ pc' = "fd_save"
            /\ UNCHANGED <<detection, steps, failed>>
       ELSE IF ok
            THEN /\ detection' = detection
                 /\ steps' = Log(steps, img_i + 1, "draw")
                 /\ pc' = "fd_save"
                 /\ UNCHANGED failed
            ELSE /\ steps' = Log(steps, img_i + 1, "rescale")
                 /\ Raise("rescale")
                 /\ UNCHANGED detection
    /\ UNCHANGED <<detVars, which, calls, img, h, w, image, detections, result,
                   fdArgs, fdVars, figs, fwdCount, nmsArgs, nmsGhost, figs0,
                   cfg0, regVars>>

\* FD_Rescale that moves on to the next image when there are no detections,
\* without saving
FD_Rescale_SkipsEmpty(ok) ==
    /\ pc = "fd_rescale"
    /\ IF detection.none
       THEN /\ pc' = "fd_close"
            /\ UNCHANGED <<detection, steps, failed>>
       ELSE IF ok
            THEN /\ detection' = rescale_boxes(detection, fdet.model.img_size, img)
                 /\ steps' = Log(Log(steps, img_i + 1, "rescale"), img_i + 1, "draw")
                 /\ pc' = "fd_save"
                 /\ UNCHANGED failed
            ELSE /\ steps' = Log(steps, img_i + 1, "rescale")
                 /\ Raise("rescale")
                 /\ UNCHANGED detection
    /\ UNCHANGED <<detVars, which, calls, img, h, w, image, detections, result,
                   fdArgs, fdVars, figs, fwdCount, nmsArgs, nmsGhost, figs0,
                   cfg0, regVars>>

\* lines 119-138: rescale_boxes and the boxes' rectangles and labels
FD_Rescale(ok) ==
    /\ pc = "fd_rescale"
    /\ IF detection.none
       THEN /\ pc' = "fd_save"
            /\ UNCHANGED <<detection, steps, failed>>
       ELSE IF ok
            THEN /\ detection' = rescale_boxes(detection, fdet.model.img_size, img)
                 /\ steps' = Log(Log(steps, img_i + 1, "rescale"), img_i + 1, "draw")
                 /\ pc' = "fd_save"
                 /\ UNCHANGED failed
            ELSE /\ steps' = Log(steps, img_i + 1, "rescale")
                 /\ Raise("rescale")
                 /\ UNCHANGED detection
    /\ UNCHANGED <<detVars, which, calls, img, h, w, image, detections, result,
                   fdArgs, fdVars, figs, fwdCount, nmsArgs, nmsGhost, figs0,
                   cfg0, regVars>>

\* lines 141-147: plt.savefig(output_path, ...)
FD_Save(ok) ==
    /\ pc = "fd_save"
    /\ steps' = Log(steps, img_i + 1, "save")
    /\ IF ok THEN /\ saved' = Append(saved, [output_path |-> output_path_of(output_dir, path),
                                             path |-> path, detection |-> detection])
                  /\ pc' = "fd_close"
                  /\ UNCHANGED failed
             ELSE /\ Raise("save")
                  /\ UNCHANGED saved
    /\ UNCHANGED <<detVars, which, calls, img, h, w, image, detections,
                   detection, result, fdArgs, batch_i, img_paths, imgs,
                   img_detections, img_i, path, figs, fwdCount, nmsArgs,
                   nmsGhost, figs0, cfg0, regVars>>

\* line 148: plt.close()
FD_Close ==
    /\ pc = "fd_close"
    /\ figs' = plt_close(figs)
    /\ pc' = "fd_image"
    /\ UNCHANGED <<detVars, which, calls, failed, img, h, w, image, detections,
                   detection, result, fdArgs, fdVars, steps, fwdCount, nmsArgs,
                   nmsGhost, figs0, cfg0, regVars>>

\* detect() has returned or raised: its frame and locals are gone, the objects,
\* pyplot's figures and the files stay
FrameDropped ==
    /\ pc \in {"done", "raised"}
    /\ pc' = "idle" /\ which' = "none" /\ failed' = "none"
    /\ img' = <<0, 0>> /\ h' = 0 /\ w' = 0 /\ image' = <<>>
    /\ detections' = <<>> /\ detection' = NotReturned /\ result' = NotReturned
    /\ dataloader' = <<>> /\ output_dir' = <<>> /\ conf_thres' = 0 /\ nms_thres' = 0
    /\ batch_i' = -1 /\ img_paths' = <<>> /\ imgs' = <<>> /\ img_detections' = <<>>
    /\ img_i' = -1 /\ path' = <<>> /\ saved' = <<>>
    /\ steps' = <<>> /\ fwdCount' = 0 /\ nmsArgs' = <<>> /\ nmsGhost' = <<>>
    /\ figs0' = figs
    /\ UNCHANGED <<detVars, calls, figs, cfg0, regVars>>

\* a statement of a running ImageDetector.detect
ID_Step ==
    \/ ID_Resize
    \/ ID_Pad
    \/ ID_Batch
    \/ \E ok \in BOOLEAN : ID_Forward(ok)
    \/ \E ok \in BOOLEAN : \E out \in NmsOutputs(detections) : ID_NMS(ok, out)
    \/ \E ok \in BOOLEAN : ID_Rescale(ok)

\* a statement of a running ImageFolderDetector.detect
FD_Step ==
    \/ FD_NextBatch
    \/ \E ok \in BOOLEAN : FD_Forward(ok)
    \/ \E ok \in BOOLEAN : \E out \in NmsOutputs(detections) : FD_NMS(ok, out)
    \/ FD_Extend
    \/ \E ok \in BOOLEAN : FD_Open(ok)
    \/ FD_Return
    \/ FD_Figure
    \/ \E ok \in BOOLEAN : FD_Rescale(ok)
    \/ \E ok \in BOOLEAN : FD_Save(ok)
    \/ FD_Close

Next ==
    \/ \E shape \in (1..MaxDim) \X (1..MaxDim) : ID_Call(shape)
    \/ ID_Step
    \/ \E dl \in Dataloaders, out \in OutputDirs,
          conf \in ConfThresholds, nms \in NmsThresholds : FD_Call(dl, out, conf, nms)
    \/ FD_Step
    \/ FrameDropped

Spec == Init /\ [][Next]_vars


\* ------------------------------------------------------ backbone registry
\* BACKBONE_REGISTRY is a set of <<name, constructor>> pairs; a constructor is
\* identified by the position of its module among the imports of lines 9-11.
RegisteredNames == { BACKBONE_NAMES[i] : i \in 1..NumImports }
LookupNames == RegisteredNames \cup {"build_unknown_backbone"}
KeyError == 0

\* Registry.get(name): the registered object, KeyError when there is none
RegistryGet(reg, name) ==
    IF \E e \in reg : e[1] = name
    THEN (CHOOSE e \in reg : e[1] = name)[2]
    ELSE KeyError

\* Registry._do_register(name, obj), run by the @BACKBONE_REGISTRY.register()
\* decorator of the imported module
RegistryRegister(reg, name, obj) == reg \cup { <<name, obj>> }

RegInit ==
    /\ \E size \in 1..MaxSize, classes \in ClassFiles,
          conf \in ConfThresholds, nms \in NmsThresholds :
         /\ idet = NewImageDetector(size, classes, DefaultThickness, conf, nms)
         /\ fdet = NewImageFolderDetector(size, classes)
    /\ cfg0 = <<idet, fdet>>
    /\ pc = "idle" /\ which = "none" /\ calls = 0 /\ failed = "none"
    /\ NoCall
    /\ figs = <<>> /\ figs0 = <<>>
    /\ registry = {} /\ importPc = 0 /\ lookups = <<>>

nonRegVars == <<idet, fdet, pc, which, calls, failed, img, h, w, image,
                detections, detection, result, dataloader, output_dir,
                conf_thres, nms_thres, batch_i, img_paths, imgs, img_detections,
                img_i, path, saved, figs, steps, fwdCount, nmsArgs, nmsGhost,
                figs0, cfg0>>

\* ImportBackbone that executes the last backbone module once more after the
\* package is loaded, registering the constructor object this creates
ImportBackbone_Again ==
    /\ importPc <= NumImports
    /\ LET m == IF importPc < NumImports THEN importPc + 1 ELSE NumImports IN
         registry' = RegistryRegister({e \in registry : e[1] # BACKBONE_NAMES[m]},
                                      BACKBONE_NAMES[m], importPc + 1)
    /\ importPc' = importPc + 1
    /\ UNCHANGED <<lookups, nonRegVars>>

\* __init__.py lines 9-11: the next backbone module is imported and its
\* constructor registers itself under its function name
ImportBackbone ==
    /\ importPc < NumImports
    /\ ~(\E e \in registry : e[1] = BACKBONE_NAMES[importPc + 1])
    /\ registry' = RegistryRegister(registry, BACKBONE_NAMES[importPc + 1], importPc + 1)
    /\ importPc' = importPc + 1
    /\ UNCHANGED <<lookups, nonRegVars>>

\* BACKBONE_REGISTRY.get(name) by a client of the imported package
Lookup(name) ==
    /\ importPc = NumImports
    /\ Len(lookups) < MaxLookups
    /\ lookups' = Append(lookups, <<"get", name, RegistryGet(registry, name)>>)
    /\ UNCHANGED <<registry, importPc, nonRegVars>>

\* build_backbone(cfg) with cfg.MODEL.BACKBONE.NAME = name:
\* BACKBONE_REGISTRY.get(name)(cfg)
BuildBackbone(name) ==
    /\ importPc = NumImports
    /\ Len(lookups) < MaxLookups
    /\ lookups' = Append(lookups, <<"build", name, RegistryGet(registry, name)>>)
    /\ UNCHANGED <<registry, importPc, nonRegVars>>

RegNext ==
    \/ ImportBackbone
    \/ \E name \in LookupNames : Lookup(name)
    \/ \E name \in LookupNames : BuildBackbone(name)

RegSpec == RegInit /\ [][RegNext]_vars


\* ================================================================= claims
StepOrder == <<"resize", "pad", "batch", "forward", "suppress", "rescale", "draw", "save">>
StepIdx(s) == CHOOSE k \in 1..Len(StepOrder) : StepOrder[k] = s
Count(seq, s) == Cardinality({k \in 1..Len(seq) : seq[k] = s})
RanBefore(seq, k, s) == \E j \in 1..(k - 1) : seq[j] = s
Running == pc \notin {"idle", "done", "raised"}
AllPaths == Flatten(dataloader)

\* ---- C1
\* the steps that are not optional, in the order the specification lists them
MandatorySteps == {"resize", "pad", "batch", "forward", "suppress", "rescale"}

\* the steps of the list a detector's images go through inside detect(): the
\* batches handed to ImageFolderDetector.detect are resized and padded already
StepsOf(det) == IF det = "FD" THEN MandatorySteps \ {"resize", "pad"} ELSE MandatorySteps

\* C1 as stated: for every image, whenever a step of the list runs, every
\* earlier step of resize, pad, batch, forward, suppress, rescale has already
\* run for that image.
C1_EveryStepAfterAllEarlier ==
    \A i \in 1..Len(steps) : \A k \in 1..Len(steps[i]) :
        \A s \in StepsOf(which) :
            StepIdx(s) < StepIdx(steps[i][k]) => RanBefore(steps[i], k, s)

\* the steps that must have run for an image before step s runs for it
StepsBefore(det, s) ==
    { t \in {StepOrder[j] : j \in 1..Len(StepOrder)} : StepIdx(t) < StepIdx(s) }
      \ ( (IF det = "FD" THEN {"resize", "pad"} ELSE {})
          \cup (IF s = "save" THEN {"rescale", "draw"} ELSE {}) )

\* C1 amended: the steps that run for an image run in the order of the list and
\* at most once; ImageDetector.detect runs resize, pad, batch, forward, suppress
\* and then rescale only for an image with detections; ImageFolderDetector.detect
\* does no resize or pad itself, runs batch, forward, suppress, and save for every
\* image, and rescale and draw only for an image with detections; forward always
\* precedes suppress, which precedes rescale.
C1_StepsInListOrder ==
    \A i \in 1..Len(steps) :
        /\ \A k \in 1..Len(steps[i]) :
              /\ \A j \in 1..(k - 1) : StepIdx(steps[i][j]) < StepIdx(steps[i][k])
              /\ \A t \in StepsBefore(which, steps[i][k]) : RanBefore(steps[i], k, t)
        /\ (which = "FD" /\ Count(steps[i], "rescale") = 1) => ~nmsGhost[i].none
        /\ (which = "ID" /\ Count(steps[i], "rescale") = 1) => ~detection.none

\* an image of a folder went through every step, another one skipped rescale
C1_Witness ==
    /\ which = "FD" /\ pc = "done" /\ Len(steps) = 2
    /\ steps[1] = <<"batch", "forward", "suppress", "rescale", "draw", "save">>
    /\ steps[2] = <<"batch", "forward", "suppress", "save">>

\* ---- C2
\* C2: no step of either detect() changes a field of the detector objects, and
\* the thresholds handed to non_max_suppression are the constructor's
\* (ImageDetector) or the call's own arguments (ImageFolderDetector).
C2_DetectLeavesFieldsUnchanged ==
    /\ [][idet' = idet /\ fdet' = fdet]_vars
    /\ [](<<idet, fdet>> = cfg0)
    /\ [](nmsArgs # <<>> =>
            nmsArgs = IF which = "ID"
                      THEN <<cfg0[1].conf_thres, cfg0[1].nms_thres>>
                      ELSE <<conf_thres, nms_thres>>)

\* a second detect() call has run non_max_suppression
C2_Witness == calls = 2 /\ nmsArgs # <<>> /\ pc = "done"

\* ---- C3
\* C3 as stated: once ImageDetector.detect has passed the resize, the image's
\* longer side is model.img_size and its shorter side floor(shorter * img_size /
\* longer), and after pad_to_square the tensor is img_size x img_size.
C3_ResizedToImgSize ==
    (which = "ID" /\ Count(steps[1], "resize") = 1) =>
        LET size == idet.model.img_size
            longer == IF w > h THEN w ELSE h
            shorter == IF w > h THEN h ELSE w
        IN /\ failed # "resize"
           /\ img = IF w > h THEN <<(shorter * size) \div longer, size>>
                             ELSE <<size, (shorter * size) \div longer>>
           /\ Count(steps[1], "pad") = 1 =>
                 /\ image[Len(image) - 1] = size
                 /\ image[Len(image)] = size

\* ---- C4
IsLast(seq, s) == seq # <<>> /\ seq[Len(seq)] = s

\* C4: the model is invoked once per ImageDetector.detect call and once per
\* batch, no step is attempted twice for an image, and when a step raises it is
\* the last step of the call: the call is left and nothing else of it runs.
C4_NoRetryNoRecovery ==
    /\ [](which = "ID" =>
            /\ fwdCount <= 1
            /\ pc \in {"id_nms", "id_rescale", "done"} => fwdCount = 1)
    /\ [](which = "FD" =>
            /\ fwdCount <= batch_i + 1
            /\ pc \in {"fd_nms", "fd_extend"} => fwdCount = batch_i + 1
            /\ pc \in {"fd_next", "fd_image", "done"} => fwdCount = batch_i + 1
            /\ pc = "done" => fwdCount = Len(dataloader))
    /\ [](\A i \in 1..Len(steps) : \A s \in {steps[i][k] : k \in 1..Len(steps[i])} :
            Count(steps[i], s) = 1)
    /\ [](pc = "raised" =>
            /\ failed # "none"
            /\ failed # "open" => \E i \in 1..Len(steps) : IsLast(steps[i], failed)
            /\ failed \in {"forward", "suppress"} =>
                 /\ \A i \in 1..Len(steps) :
                       steps[i] = <<>> \/ IsLast(steps[i], "suppress") \/ IsLast(steps[i], failed)
                 /\ saved = <<>>
            /\ (which = "FD" /\ failed \in {"open", "rescale", "save"}) =>
                 /\ Len(saved) = img_i
                 /\ \A i \in (img_i + 2)..Len(steps) : IsLast(steps[i], "suppress"))
    /\ [][pc = "raised" => pc' = "idle" /\ calls' = calls]_vars

\* the forward pass of the second batch raised
C4_Witness ==
    /\ which = "FD" /\ pc = "raised" /\ failed = "forward"
    /\ batch_i = 1 /\ fwdCount = 2

\* ---- C5
\* how far a folder call has come: every statement of the call raises it
Progress ==
    LET done_batches == 4 * Len(dataloader) + 1 IN
    CASE pc = "fd_next"    -> 4 * (batch_i + 1)
      [] pc = "fd_forward" -> 4 * batch_i + 1
      [] pc = "fd_nms"     -> 4 * batch_i + 2
      [] pc = "fd_extend"  -> 4 * batch_i + 3
      [] pc = "fd_image"   -> done_batches + 5 * (img_i + 1)
      [] pc = "fd_figure"  -> done_batches + 5 * img_i + 1
      [] pc = "fd_rescale" -> done_batches + 5 * img_i + 2
      [] pc = "fd_save"    -> done_batches + 5 * img_i + 3
      [] pc = "fd_close"   -> done_batches + 5 * img_i + 4
      [] OTHER             -> done_batches + 5 * Len(AllPaths) + 1

\* C5: a started ImageFolderDetector.detect comes to an end (each of its
\* statements raises Progress, which the dataloader's size bounds, and a running
\* call can always take a step), and when it returns every path the dataloader
\* yielded has been saved exactly once, in the order yielded, with or without
\* detections.
C5_AllImagesSaved ==
    /\ []((which = "FD" /\ pc = "done") =>
            /\ Len(saved) = Len(AllPaths)
            /\ \A k \in 1..Len(saved) : saved[k].path = AllPaths[k]
            /\ \A i \in 1..Len(steps) : Count(steps[i], "save") = 1)
    /\ [][(which = "FD" /\ Running) => Progress' > Progress]_vars
    /\ [](which = "FD" => Progress <= 4 * Len(dataloader) + 5 * Len(AllPaths) + 2)
    /\ []((which = "FD" /\ Running) => ENABLED FD_Step)

\* two images were saved, the first of them without detections
C5_Witness ==
    /\ which = "FD" /\ pc = "done" /\ Len(saved) = 2
    /\ saved[1].detection.none /\ ~saved[2].detection.none


\* ---- C6
\* C6: once the package is loaded the registry never changes, and two lookups
\* of one name (by get or by build_backbone) give the same constructor.
C6_RegistryFixedAfterLoad ==
    /\ [][importPc >= NumImports => registry' = registry]_vars
    /\ [](\A i, j \in 1..Len(lookups) :
            lookups[i][2] = lookups[j][2] => lookups[i][3] = lookups[j][3])

\* a registered name was looked up and then built
C6_Witness ==
    /\ Len(lookups) >= 2
    /\ lookups[1][1] = "get" /\ lookups[2][1] = "build"
    /\ lookups[1][2] = "build_darknet_backbone" /\ lookups[2][2] = lookups[1][2]
    /\ lookups[1][3] # KeyError

\* ---- C7
\* C7: ImageDetector.detect returns None exactly when non_max_suppression's
\* first entry is None, without calling rescale_boxes; otherwise it returns
\* rescale_boxes applied once to that entry with model.img_size and the (h, w)
\* the image had before the resize.
C7_ReturnsRescaledOrNone ==
    (which = "ID" /\ pc = "done") =>
        /\ result.none <=> nmsGhost[1].none
        /\ nmsGhost[1].none =>
              /\ result = None
              /\ Count(steps[1], "rescale") = 0
        /\ ~nmsGhost[1].none =>
              /\ result = rescale_boxes(nmsGhost[1], idet.model.img_size, <<h, w>>)
              /\ Len(result.scaled) = 1
              /\ Count(steps[1], "rescale") = 1

\* boxes were returned for an image whose resized shape differs from (h, w)
C7_Witness ==
    /\ which = "ID" /\ pc = "done" /\ ~result.none
    /\ img # <<h, w>> /\ h # w

\* ---- C8
\* the entry non_max_suppression computed for image k, as the save loop sees it
SameDetection(d, k) ==
    /\ d.none = nmsGhost[k].none
    /\ d.src = nmsGhost[k].src
    /\ ~d.none => d.src = k

\* C8: imgs and img_detections always have the same length, every image is
\* opened, drawn and saved with the detections computed for that image, and
\* nothing is rendered before every batch has been through the model.
C8_PathsAndDetectionsAligned ==
    which = "FD" =>
        /\ Len(imgs) = Len(img_detections)
        /\ pc \in {"fd_next", "fd_image", "done"} => Len(imgs) = Offset(dataloader, batch_i + 1)
        /\ \A k \in 1..Len(saved) :
              /\ saved[k].path = AllPaths[k]
              /\ SameDetection(saved[k].detection, k)
        /\ img_i >= 0 =>
              /\ path = AllPaths[img_i + 1]
              /\ SameDetection(detection, img_i + 1)
        /\ (img_i >= 0 \/ saved # <<>> \/ figs # figs0 \/ pc = "fd_image") =>
              /\ batch_i = Len(dataloader) - 1
              /\ fwdCount = Len(dataloader)
              /\ Len(nmsGhost) = Len(AllPaths)

\* two batches; the image of the first has no detections, the second has
C8_Witness ==
    /\ which = "FD" /\ Len(dataloader) = 2 /\ Len(saved) = 2
    /\ saved[1].detection.none /\ saved[2].detection.src = 2

\* ---- C9
\* C9 as stated: within one call no two distinct images are saved to the same
\* output file.
C9_DistinctOutputFiles ==
    which = "FD" =>
        \A j, k \in 1..Len(saved) :
            saved[j].path # saved[k].path => saved[j].output_path # saved[k].output_path

\* ---- C10
\* C10 as stated: every figure opened for an image is closed before the next
\* image is rendered, and after the call as many figures are open as before.
C10_FiguresReleased ==
    (which = "FD" /\ pc \in {"fd_image", "done"}) => Len(figs) = Len(figs0)

====
